---- MODULE Spec2Model ----
(***************************************************************************)
(* Model of app/src/ui/main-process-proxy.ts: the renderer-side proxies    *)
(* that forward calls to the main process over the IPC transport.          *)
(*                                                                         *)
(* The renderer (the caller) is one cooperative execution context.  Every  *)
(* call of a proxy is recorded in `calls`, what the proxy hands to the     *)
(* transport is recorded in `wire`, what the proxy returns to its caller   *)
(* is recorded in `results`, and the promises the transport owns are in    *)
(* `promises` (one slot per transport call).                               *)
(***************************************************************************)
EXTENDS Integers, Sequences, FiniteSets, TLC

\* Bounds of the model.
MaxArgs == 3
MaxCalls == 2
GuardCalls == 1

\* Values a caller may pass, reply payloads and failures of the transport.
Vals == {"x", "y", "z"}
CallVals == {"x"}
Payloads == {"p1", "p2"}
Failures == {"disconnected"}

RECURSIVE SeqsOver(_, _)
SeqsOver(S, k) ==
  IF k = 0 THEN {<<>>}
  ELSE LET shorter == SeqsOver(S, k - 1)
       IN shorter \cup {Append(s, v) : s \in {t \in shorter : Len(t) = k - 1}, v \in S}

\* The actual argument lists a call site may supply: every list up to
\* MaxArgs long (ArgLists), and the lists of one repeated value (CallArgs).
ArgLists == SeqsOver(Vals, MaxArgs)
CallArgs == SeqsOver(CallVals, MaxArgs)

Min(a, b) == IF a < b THEN a ELSE b
Max(a, b) == IF a > b THEN a ELSE b

VARIABLES
  proxies,    \* fn -> the kind, channel and numArgs captured by the proxy's closure
  calls,      \* the calls the renderer has made, in order
  wire,       \* the transport calls issued, in order
  promises,   \* one slot per transport call: the promise invoke returned
  results,    \* what each call returned to its caller
  callerPc,   \* "running" | "blocked" (inside sendSync)
  mainWillQuit \* number of 'will-quit' messages the main process has processed

vars == <<proxies, calls, wire, promises, results, callerPc, mainWillQuit>>

\* Proxies the module builds at load time.  Every proxy is built by one of the
\* two builders and differs from the others only in channel and arity; the
\* table holds, for each builder, one proxy of each arity from 0 to 2.
ProxyTable ==
  [ focusWindow |-> [kind |-> "send", channel |-> "focus-window", numArgs |-> 0],
    showItemInFolder |-> [kind |-> "send", channel |-> "show-item-in-folder", numArgs |-> 1],
    showCertificateTrustDialog |->
      [kind |-> "send", channel |-> "show-certificate-trust-dialog", numArgs |-> 2],
    isWindowFocused |-> [kind |-> "invoke", channel |-> "is-window-focused", numArgs |-> 0],
    openExternal |-> [kind |-> "invoke", channel |-> "open-external", numArgs |-> 1],
    invokeContextualMenu |->
      [kind |-> "invoke", channel |-> "show-contextual-menu", numArgs |-> 2] ]

ProxyNames == DOMAIN ProxyTable
SendProxies == {p \in ProxyNames : ProxyTable[p].kind = "send"}
InvokeProxies == {p \in ProxyNames : ProxyTable[p].kind = "invoke"}

\* Array.prototype.slice(start, end): negative indices count from the end,
\* both are clamped to the array, and the result is the elements in between.
Slice(A, start, end) ==
  LET len == Len(A)
      k == IF start < 0 THEN Max(len + start, 0) ELSE Min(start, len)
      final == IF end < 0 THEN Max(len + end, 0) ELSE Min(end, len)
  IN IF final <= k THEN <<>> ELSE SubSeq(A, k + 1, final)

\* Mutant: the guard forwards the arguments as they came.
ArityGuardNoTruncate(A, numArgs) == A

\* Mutant: the guard keeps the last numArgs arguments, args.slice(-numArgs).
ArityGuardTail(A, numArgs) ==
  IF Len(A) # numArgs THEN Slice(A, 0 - numArgs, Len(A)) ELSE A

\* Mutant: the guard sets args.length = numArgs, which fills a short list.
ArityGuardPad(A, numArgs) ==
  [i \in 1..numArgs |-> IF i <= Len(A) THEN A[i] ELSE "undefined"]

\* args = args.length !== numArgs ? args.slice(0, numArgs) : args
ArityGuard(A, numArgs) ==
  IF Len(A) # numArgs THEN Slice(A, 0, numArgs) ELSE A

\* Values a call returns: undefined, the promise of transport request r, or
\* (no code path builds it) that promise with a catch handler chained on.
Undefined == [kind |-> "undefined", req |-> 0]
PromiseOf(r) == [kind |-> "promise", req |-> r]
Caught(r) == [kind |-> "caught", req |-> r]

\* Promise slots.
NoPromise == [status |-> "none", value |-> "none"]
Pending == [status |-> "pending", value |-> "none"]
Fulfilled(p) == [status |-> "fulfilled", value |-> p]
Rejected(f) == [status |-> "rejected", value |-> f]

\* What the caller of call i observes when it waits on the returned value.
Observed(i) ==
  LET v == results[i]
  IN IF v.kind = "undefined" \/ v.req \notin DOMAIN promises THEN NoPromise
     ELSE IF v.kind = "caught" /\ promises[v.req].status = "rejected"
          THEN Fulfilled("undefined")
     ELSE promises[v.req]

\* ipcRenderer.send(channel, ...args): one-way, returns at once.
TransportSend(w, channel, args) ==
  Append(w, [prim |-> "send", channel |-> channel, args |-> args])

\* ipcRenderer.invoke(channel, ...args): issues the request; its promise is
\* the slot with the request's index.
TransportInvoke(w, channel, args) ==
  Append(w, [prim |-> "invoke", channel |-> channel, args |-> args])

\* ipcRenderer.sendSync(channel): issues the message and blocks the caller.
TransportSendSync(w, channel) ==
  Append(w, [prim |-> "sendSync", channel |-> channel, args |-> <<>>])

Init ==
  /\ proxies = ProxyTable
  /\ calls = <<>>
  /\ wire = <<>>
  /\ promises = <<>>
  /\ results = <<>>
  /\ callerPc = "running"
  /\ mainWillQuit = 0

\* s with e put in before its last element.
InsertBeforeLast(s, e) ==
  IF s = <<>> THEN <<e>>
  ELSE Append(SubSeq(s, 1, Len(s) - 1), e) \o <<s[Len(s)]>>

\* Mutant: the proxy sends the message twice.
SendProxyCallTwice(p, A) ==
  /\ callerPc = "running"
  /\ Len(calls) < MaxCalls
  /\ proxies[p].kind = "send"
  /\ calls' = Append(calls, [fn |-> p, args |-> A])
  /\ wire' = TransportSend(
       TransportSend(wire, proxies[p].channel, ArityGuard(A, proxies[p].numArgs)),
       proxies[p].channel, ArityGuard(A, proxies[p].numArgs))
  /\ promises' = Append(Append(promises, NoPromise), NoPromise)
  /\ results' = Append(results, Undefined)
  /\ UNCHANGED <<proxies, callerPc, mainWillQuit>>

\* Mutant: the previous call's send was put off and lands after this one.
SendProxyCallReordered(p, A) ==
  /\ callerPc = "running"
  /\ Len(calls) < MaxCalls
  /\ proxies[p].kind = "send"
  /\ calls' = Append(calls, [fn |-> p, args |-> A])
  /\ wire' = InsertBeforeLast(wire,
       [prim |-> "send", channel |-> proxies[p].channel,
        args |-> ArityGuard(A, proxies[p].numArgs)])
  /\ promises' = InsertBeforeLast(promises, NoPromise)
  /\ results' = Append(results, Undefined)
  /\ UNCHANGED <<proxies, callerPc, mainWillQuit>>

\* Mutant: the simplex builder delegates to invoke, as the duplex one does.
SendProxyCallViaInvoke(p, A) ==
  /\ callerPc = "running"
  /\ Len(calls) < MaxCalls
  /\ proxies[p].kind = "send"
  /\ calls' = Append(calls, [fn |-> p, args |-> A])
  /\ wire' = TransportInvoke(wire, proxies[p].channel, ArityGuard(A, proxies[p].numArgs))
  /\ promises' = Append(promises, Pending)
  /\ results' = Append(results, Undefined)
  /\ UNCHANGED <<proxies, callerPc, mainWillQuit>>

\* A call of a proxy built by sendProxy(channel, numArgs).
SendProxyCall(p, A) ==
  /\ callerPc = "running"
  /\ Len(calls) < MaxCalls
  /\ proxies[p].kind = "send"
  /\ calls' = Append(calls, [fn |-> p, args |-> A])
  /\ wire' = TransportSend(wire, proxies[p].channel, ArityGuard(A, proxies[p].numArgs))
  /\ promises' = Append(promises, NoPromise)
  /\ results' = Append(results, Undefined)
  /\ UNCHANGED <<proxies, callerPc, mainWillQuit>>

\* Mutant: the closure calls invoke and drops its promise (no return).
InvokeProxyCallNoReturn(p, A) ==
  /\ callerPc = "running"
  /\ Len(calls) < MaxCalls
  /\ proxies[p].kind = "invoke"
  /\ calls' = Append(calls, [fn |-> p, args |-> A])
  /\ wire' = TransportInvoke(wire, proxies[p].channel, ArityGuard(A, proxies[p].numArgs))
  /\ promises' = Append(promises, Pending)
  /\ results' = Append(results, Undefined)
  /\ UNCHANGED <<proxies, callerPc, mainWillQuit>>

\* Mutant: the closure returns invoke(...).catch(() => undefined).
InvokeProxyCallCatches(p, A) ==
  /\ callerPc = "running"
  /\ Len(calls) < MaxCalls
  /\ proxies[p].kind = "invoke"
  /\ calls' = Append(calls, [fn |-> p, args |-> A])
  /\ wire' = TransportInvoke(wire, proxies[p].channel, ArityGuard(A, proxies[p].numArgs))
  /\ promises' = Append(promises, Pending)
  /\ results' = Append(results, Caught(Len(wire) + 1))
  /\ UNCHANGED <<proxies, callerPc, mainWillQuit>>

\* Mutant: the closure waits for every earlier request before it invokes.
InvokeProxyCallSerial(p, A) ==
  /\ callerPc = "running"
  /\ Len(calls) < MaxCalls
  /\ proxies[p].kind = "invoke"
  /\ \A r \in DOMAIN promises : promises[r].status # "pending"
  /\ calls' = Append(calls, [fn |-> p, args |-> A])
  /\ wire' = TransportInvoke(wire, proxies[p].channel, ArityGuard(A, proxies[p].numArgs))
  /\ promises' = Append(promises, Pending)
  /\ results' = Append(results, PromiseOf(Len(wire) + 1))
  /\ UNCHANGED <<proxies, callerPc, mainWillQuit>>

\* A call of a proxy built by invokeProxy(channel, numArgs).
InvokeProxyCall(p, A) ==
  /\ callerPc = "running"
  /\ Len(calls) < MaxCalls
  /\ proxies[p].kind = "invoke"
  /\ calls' = Append(calls, [fn |-> p, args |-> A])
  /\ wire' = TransportInvoke(wire, proxies[p].channel, ArityGuard(A, proxies[p].numArgs))
  /\ promises' = Append(promises, Pending)
  /\ results' = Append(results, PromiseOf(Len(wire) + 1))
  /\ UNCHANGED <<proxies, callerPc, mainWillQuit>>

\* The transport settles the promise of request r with the main process's
\* reply; the settlement is delivered on the renderer's event loop.
Reply(r, outcome) ==
  /\ callerPc = "running"
  /\ r \in DOMAIN promises
  /\ promises[r].status = "pending"
  /\ promises' = [promises EXCEPT ![r] = outcome]
  /\ UNCHANGED <<proxies, calls, wire, results, callerPc, mainWillQuit>>

\* Mutant: 'will-quit' goes out with the one-way send.
SendWillQuitAsync ==
  /\ callerPc = "running"
  /\ Len(calls) < MaxCalls
  /\ calls' = Append(calls, [fn |-> "sendWillQuitSync", args |-> <<>>])
  /\ wire' = TransportSend(wire, "will-quit", <<>>)
  /\ promises' = Append(promises, NoPromise)
  /\ results' = Append(results, Undefined)
  /\ UNCHANGED <<proxies, callerPc, mainWillQuit>>

\* sendWillQuitSync(): ipcRenderer.sendSync('will-quit') is entered.
SendWillQuitSync ==
  /\ callerPc = "running"
  /\ Len(calls) < MaxCalls
  /\ calls' = Append(calls, [fn |-> "sendWillQuitSync", args |-> <<>>])
  /\ wire' = TransportSendSync(wire, "will-quit")
  /\ promises' = Append(promises, NoPromise)
  /\ results' = Append(results, Undefined)
  /\ callerPc' = "blocked"
  /\ UNCHANGED <<proxies, mainWillQuit>>

\* Number of 'will-quit' messages issued on the wire.
WillQuitIssued == Cardinality({i \in DOMAIN wire : wire[i].channel = "will-quit"})

\* The main process handles a 'will-quit' message it has not handled yet.
MainProcessWillQuit ==
  /\ mainWillQuit < WillQuitIssued
  /\ mainWillQuit' = mainWillQuit + 1
  /\ UNCHANGED <<proxies, calls, wire, promises, results, callerPc>>

\* sendSync returns once the main process has processed the message.
SendWillQuitSyncReturn ==
  /\ callerPc = "blocked"
  /\ mainWillQuit = WillQuitIssued
  /\ callerPc' = "running"
  /\ UNCHANGED <<proxies, calls, wire, promises, results, mainWillQuit>>

Outcomes == {Fulfilled(p) : p \in Payloads} \cup {Rejected(f) : f \in Failures}

Next ==
  \/ \E p \in ProxyNames, A \in CallArgs : SendProxyCall(p, A)
  \/ \E p \in ProxyNames, A \in CallArgs : InvokeProxyCall(p, A)
  \/ \E r \in DOMAIN promises, o \in Outcomes : Reply(r, o)
  \/ SendWillQuitSync
  \/ MainProcessWillQuit
  \/ SendWillQuitSyncReturn

\* The renderer calling proxies, the main process answering.
Spec == Init /\ [][Next]_vars

\* One call of one proxy with any argument list.
GuardNext ==
  \/ \E p \in ProxyNames, A \in ArgLists : Len(calls) < GuardCalls /\ SendProxyCall(p, A)
  \/ \E p \in ProxyNames, A \in ArgLists : Len(calls) < GuardCalls /\ InvokeProxyCall(p, A)

\* The proxies applied to every argument list, one call at a time.
SpecGuard == Init /\ [][GuardNext]_vars

----------------------------------------------------------------------------
\* Properties.

\* Call i is a call of a proxy (not of sendWillQuitSync).
IsProxyCall(i) == calls[i].fn \in ProxyNames
\* The arity and channel call i's proxy was built with.
Declared(i) == ProxyTable[calls[i].fn].numArgs
ChannelOf(i) == ProxyTable[calls[i].fn].channel
\* The first Min(Len(A), n) elements of A.
Prefix(A, n) == SubSeq(A, 1, Min(Len(A), n))

\* C1 (as stated): for every call of a proxy, whatever the number of actual
\* arguments, the number of arguments handed to the transport equals the
\* declared arity.
C1_TransmittedCountIsArity ==
  \A i \in DOMAIN calls :
    IsProxyCall(i) => i \in DOMAIN wire /\ Len(wire[i].args) = Declared(i)

\* C1 (amended): the number of arguments handed to the transport equals the
\* declared arity when the caller supplies at least that many, and equals the
\* number supplied when the caller supplies fewer.
C1_TransmittedCountIsMin ==
  \A i \in DOMAIN calls :
    IsProxyCall(i) =>
      /\ i \in DOMAIN wire
      /\ Len(wire[i].args) =
           IF Len(calls[i].args) >= Declared(i) THEN Declared(i) ELSE Len(calls[i].args)

\* A proxy was called with fewer arguments than its arity and handed the
\* transport fewer than its arity.
C1_Witness ==
  \E i \in DOMAIN calls :
    /\ IsProxyCall(i) /\ i \in DOMAIN wire
    /\ Len(calls[i].args) < Declared(i)
    /\ Len(wire[i].args) < Declared(i)

\* C2: when a proxy of arity n is called with at least n arguments, the list
\* it transmits is the first n of them in their order, n long; with exactly n
\* it is the list itself, and arity 0 with extra arguments transmits none.
C2_TransmitsFirstN ==
  \A i \in DOMAIN calls :
    (IsProxyCall(i) /\ Len(calls[i].args) >= Declared(i)) =>
      /\ i \in DOMAIN wire
      /\ Len(wire[i].args) = Declared(i)
      /\ \A k \in 1..Declared(i) : wire[i].args[k] = calls[i].args[k]
      /\ (Len(calls[i].args) = Declared(i) => wire[i].args = calls[i].args)
      /\ (Declared(i) = 0 => wire[i].args = <<>>)

\* A proxy of arity 2 was called with three arguments, the first two
\* different, and transmitted exactly those two.
C2_Witness ==
  \E i \in DOMAIN calls :
    /\ IsProxyCall(i) /\ i \in DOMAIN wire
    /\ Declared(i) = 2 /\ Len(calls[i].args) = 3
    /\ calls[i].args[1] # calls[i].args[2]
    /\ wire[i].args = <<calls[i].args[1], calls[i].args[2]>>

\* C3: the guard only truncates: the transmitted list is the prefix of the
\* actual list of length min(len, n), never longer than n; a list shorter than
\* n goes out as it is, nothing added, and the call completes.
C3_TruncatesNeverPads ==
  \A i \in DOMAIN calls :
    IsProxyCall(i) =>
      /\ i \in DOMAIN wire /\ i \in DOMAIN results
      /\ wire[i].args = Prefix(calls[i].args, Declared(i))
      /\ Len(wire[i].args) <= Declared(i)
      /\ (Len(calls[i].args) < Declared(i) => wire[i].args = calls[i].args)

\* A proxy of arity 2 was called with one argument and transmitted that one
\* argument alone.
C3_Witness ==
  \E i \in DOMAIN calls :
    /\ IsProxyCall(i) /\ i \in DOMAIN wire
    /\ Declared(i) = 2 /\ Len(calls[i].args) = 1
    /\ wire[i].args = calls[i].args

\* Call i is a call of a duplex (invokeProxy) or simplex (sendProxy) proxy.
IsInvokeCall(i) == calls[i].fn \in InvokeProxies
IsSendCall(i) == calls[i].fn \in SendProxies

\* C4: when the transport's invoke for a duplex call resolves with payload p,
\* the result the proxy returned resolves with the same p.
C4_ResolvesWithTransportPayload ==
  \A i \in DOMAIN calls :
    (IsInvokeCall(i) /\ i \in DOMAIN promises /\ promises[i].status = "fulfilled") =>
      /\ Observed(i).status = "fulfilled"
      /\ Observed(i).value = promises[i].value

\* Two duplex calls were answered with different payloads and each caller
\* observes its own.
C4_Witness ==
  \E i, j \in DOMAIN calls :
    /\ IsInvokeCall(i) /\ IsInvokeCall(j)
    /\ promises[i] = Fulfilled("p1") /\ promises[j] = Fulfilled("p2")
    /\ Observed(i).value = "p1" /\ Observed(j).value = "p2"

\* C5: when the transport's invoke for a duplex call fails with f, the result
\* the proxy returned fails with the same f, and the proxy issues invoke
\* exactly once per call (no retry).
C5_FailsWithTransportFailure ==
  /\ \A i \in DOMAIN calls :
       (IsInvokeCall(i) /\ i \in DOMAIN promises /\ promises[i].status = "rejected") =>
         /\ Observed(i).status = "rejected"
         /\ Observed(i).value = promises[i].value
  /\ Cardinality({j \in DOMAIN wire : wire[j].prim = "invoke"})
       = Cardinality({i \in DOMAIN calls : IsInvokeCall(i)})
  /\ \A i \in DOMAIN calls : IsInvokeCall(i) => i \in DOMAIN wire /\ wire[i].prim = "invoke"

\* A duplex call's invoke failed and its caller observes that failure; the
\* wire holds one invoke for it.
C5_Witness ==
  \E i \in DOMAIN calls :
    /\ IsInvokeCall(i)
    /\ promises[i] = Rejected("disconnected")
    /\ Observed(i) = Rejected("disconnected")
    /\ Cardinality({j \in DOMAIN wire : wire[j].prim = "invoke"}) = 1

\* C6: a call of a simplex proxy is one step in which send is issued exactly
\* once, on the proxy's channel with the truncated arguments; the call returns
\* nothing, leaves the caller running and waits on no reply.
C6_SendOncePerCall ==
  [][ (Len(calls') = Len(calls) + 1 /\ calls'[Len(calls')].fn \in SendProxies) =>
        LET c == calls'[Len(calls')]
        IN /\ wire' = Append(wire, [prim |-> "send",
                                    channel |-> ProxyTable[c.fn].channel,
                                    args |-> Prefix(c.args, ProxyTable[c.fn].numArgs)])
           /\ results' = Append(results, Undefined)
           /\ promises' = Append(promises, NoPromise)
           /\ callerPc = "running" /\ callerPc' = "running" ]_vars

\* A simplex proxy of arity 1 was called with two arguments: one send with one
\* argument is on the wire, no reply is awaited and the caller runs on.
C6_Witness ==
  \E i \in DOMAIN calls :
    /\ IsSendCall(i) /\ Declared(i) = 1 /\ Len(calls[i].args) = 2
    /\ Len(wire) = Len(calls)
    /\ wire[i].prim = "send" /\ Len(wire[i].args) = 1
    /\ promises[i] = NoPromise /\ results[i] = Undefined
    /\ callerPc = "running"

\* The channels of the send calls on the wire, in order.
SentChannels ==
  LET sends == SelectSeq(wire, LAMBDA w : w.prim = "send")
  IN [k \in DOMAIN sends |-> sends[k].channel]
\* The channels of the simplex proxies called, in order.
CalledSendChannels ==
  LET sent == SelectSeq(calls, LAMBDA c : c.fn \in SendProxies)
  IN [k \in DOMAIN sent |-> ProxyTable[sent[k].fn].channel]

\* C7: the transport's send calls are issued in the order of the simplex proxy
\* calls, one per call, and in no state has a proxy been called without its
\* transport call having been issued.
C7_SendsInCallerOrder ==
  /\ SentChannels = CalledSendChannels
  /\ Len(wire) = Len(calls)

\* Two simplex proxies on different channels were called back to back and the
\* wire holds their two sends in that order.
C7_Witness ==
  /\ Len(calls) >= 2
  /\ IsSendCall(1) /\ IsSendCall(2)
  /\ ChannelOf(1) # ChannelOf(2)
  /\ Len(wire) >= 2
  /\ wire[1].channel = ChannelOf(1) /\ wire[2].channel = ChannelOf(2)

\* A duplex call can be issued whenever the caller runs and the call bound is
\* not reached, pending requests or not.
C8_NeverWaits ==
  (callerPc = "running" /\ Len(calls) < MaxCalls) =>
    \A p \in InvokeProxies : ENABLED InvokeProxyCall(p, <<>>)

\* What a duplex caller observes changes only when the promise of its own
\* request is settled, and no other caller's observation changes with it.
C8_OwnReplyOnly ==
  \A i \in DOMAIN calls :
    (IsInvokeCall(i) /\ Observed(i)' # Observed(i)) =>
      /\ promises[i].status = "pending"
      /\ promises'[i] # promises[i]
      /\ Observed(i)' = promises'[i]
      /\ \A j \in DOMAIN calls : j # i => Observed(j)' = Observed(j)

\* C8: concurrent duplex calls are independent: a call never waits for an
\* earlier call's reply, and each call's result is settled only by the reply
\* to its own request.
C8_IndependentCalls == [](C8_NeverWaits) /\ [][C8_OwnReplyOnly]_vars

\* Two duplex calls are out, the later one answered while the earlier one is
\* still pending.
C8_Witness ==
  /\ Len(calls) >= 2
  /\ IsInvokeCall(1) /\ IsInvokeCall(2)
  /\ Observed(1).status = "pending"
  /\ Observed(2).status = "fulfilled"

\* The number of sendWillQuitSync calls made.
WillQuitCalls == Cardinality({i \in DOMAIN calls : calls[i].fn = "sendWillQuitSync"})

\* C9: whenever the caller runs, the main process has processed the 'will-quit'
\* of every sendWillQuitSync call made so far; and while the caller is inside
\* sendWillQuitSync nothing else happens on its execution context.
C9_WillQuitProcessedBeforeReturn ==
  /\ [](callerPc = "running" => mainWillQuit = WillQuitCalls)
  /\ [][callerPc = "blocked" =>
          /\ calls' = calls /\ wire' = wire
          /\ promises' = promises /\ results' = results]_vars

\* sendWillQuitSync has returned, after the main process processed 'will-quit',
\* with a duplex request of the caller still pending.
C9_Witness ==
  /\ callerPc = "running"
  /\ WillQuitCalls = 1 /\ mainWillQuit = 1
  /\ \E i \in DOMAIN calls : IsInvokeCall(i) /\ Observed(i).status = "pending"

\* C10: the channel, arity and primitive of every proxy stay what it was built
\* with, and every transport call made by a proxy is on the proxy's channel
\* with the proxy's primitive: invoke for invokeProxy, send for sendProxy.
C10_BoundToChannelAndPrimitive ==
  /\ proxies = ProxyTable
  /\ \A i \in DOMAIN calls :
       IsProxyCall(i) =>
         /\ i \in DOMAIN wire
         /\ wire[i].channel = ChannelOf(i)
         /\ wire[i].prim = ProxyTable[calls[i].fn].kind

\* The same simplex proxy was called twice and both transport calls are sends
\* on its channel.
C10_Witness ==
  /\ Len(calls) >= 2
  /\ IsSendCall(1) /\ calls[2].fn = calls[1].fn
  /\ wire[1].prim = "send" /\ wire[2].prim = "send"
  /\ wire[1].channel = ChannelOf(1) /\ wire[2].channel = ChannelOf(1)

====
